---------------------------- MODULE Spec2Model ----------------------------
(***************************************************************************)
(* EV Charging Optimization dashboard ("dv project.py").                   *)
(*                                                                         *)
(* A Streamlit script: every interaction of a browser session re-executes  *)
(* the whole script top to bottom.  The script loads the Dataset through   *)
(* the process-wide st.cache_data store, reads the sidebar radio and runs  *)
(* the one page body the if/elif chain selects.  Browser sessions share    *)
(* the process (and so the cache); each has its own widget state.          *)
(*                                                                         *)
(* Money is counted in sen (hundredths of RM): 0.60 RM/kWh is 60.  Every   *)
(* product kwh * rate of the script is then an exact integer, as it is     *)
(* after the script's two-decimal formatting of the floating-point value.  *)
(* The timestamp column, which no page reads, is left out of the rows.     *)
(***************************************************************************)
EXTENDS Integers, Sequences, FiniteSets

VARIABLES csv, cache, reads, page, widgets, df, out

vars == <<csv, cache, reads, page, widgets, df, out>>

---------------------------------------------------------------------------
(* Bounds of the model *)

\* longest CSV file (rows) the model loads
MaxRows == 2

\* the browser sessions of the process
Sessions == {"A", "B"}

\* the rows a CSV file is made of: hours out of ascending order, days out of
\* week order, two rows in one (day, hour) cell, a row of zero kWh, both
\* charger types, both locations
SessionRecords ==
    { [hour |-> 20, day |-> "Sunday", location |-> "Penang",
       charger_type |-> "Fast Charger", kWh_used |-> 10, estimated_cost_RM |-> 6],
      [hour |-> 7, day |-> "Monday", location |-> "Kuala Lumpur",
       charger_type |-> "Normal Charger", kWh_used |-> 5, estimated_cost_RM |-> 2],
      [hour |-> 20, day |-> "Sunday", location |-> "Kuala Lumpur",
       charger_type |-> "Normal Charger", kWh_used |-> 0, estimated_cost_RM |-> 0] }

\* the CSV files: every sequence of at most MaxRows rows
Datasets == UNION { [1..n -> SessionRecords] : n \in 0..MaxRows }

\* the values the kWh number input is set to (it accepts 1..100)
KwhInputs == {15, 30}

\* the slider values tried when two sessions run side by side
BoundaryHours == {18, 22}

\* the kWh values tried when two sessions run side by side
BoundaryKwh == {60}

---------------------------------------------------------------------------
(* Sequences *)

Range(s) == { s[i] : i \in 1..Len(s) }

RECURSIVE SumOf(_, _)
\* sum of column col over the rows d
SumOf(d, col) ==
    IF d = <<>> THEN 0 ELSE d[1][col] + SumOf(Tail(d), col)

\* the rows of d whose column col holds v
Where(d, col, v) == SelectSeq(d, LAMBDA r : r[col] = v)

\* position of the first row of d whose column col holds v
FirstAt(d, col, v) == CHOOSE i \in 1..Len(d) : d[i][col] = v /\ \A j \in 1..(i-1) : d[j][col] # v

RECURSIVE SortBy(_, _)
\* the elements of the finite set S as a sequence, ascending by the key
\* function (one distinct integer per element)
SortBy(S, key) ==
    IF S = {} THEN <<>>
    ELSE LET m == CHOOSE x \in S : \A y \in S : key[x] <= key[y]
         IN <<m>> \o SortBy(S \ {m}, key)

\* position of x in the sequence s of distinct elements
IndexOf(s, x) == CHOOSE i \in 1..Len(s) : s[i] = x

---------------------------------------------------------------------------
(* pandas, as the script uses it *)

\* a mean: the fraction sum / n, or NaN (the mean of no value)
NaN == [nan |-> TRUE, sum |-> 0, n |-> 0]

\* Series.mean(): NaN over no rows, no exception
mean(d, col) ==
    IF d = <<>> THEN NaN ELSE [nan |-> FALSE, sum |-> SumOf(d, col), n |-> Len(d)]

\* the distinct values of a column
unique(d, col) == { d[i][col] : i \in 1..Len(d) }

\* Series.value_counts(): one entry per distinct value, most frequent first,
\* equal counts in order of first appearance
value_counts(d, col) ==
    LET keys == unique(d, col)
        cnt == [k \in keys |-> Len(Where(d, col, k))]
        ord == [k \in keys |-> (Len(d) - cnt[k]) * (Len(d) + 1) + FirstAt(d, col, k)]
    IN [i \in 1..Cardinality(keys) |->
           LET k == SortBy(keys, ord)[i] IN [key |-> k, count |-> cnt[k]]]

\* Series.sort_index() of a series with integer labels
sort_index(series) ==
    LET idx == 1..Len(series)
        byKey == SortBy(idx, [i \in idx |-> series[i].key])
    IN [i \in idx |-> series[byKey[i]]]

\* DataFrame.groupby(col)[val].sum(): one entry per distinct key, keys
\* ascending by rank
groupby_sum(d, col, val, rank) ==
    LET keys == unique(d, col)
        sorted == SortBy(keys, [k \in keys |-> rank[k]])
    IN [i \in 1..Cardinality(keys) |->
           [key |-> sorted[i], total |-> SumOf(Where(d, col, sorted[i]), val)]]

\* Series.idxmax() over the field f of a series: the label of the first
\* maximum; raises ValueError on an empty series
idxmax_raises(series) == series = <<>>

idxmax(series, f) ==
    LET i == CHOOSE i \in 1..Len(series) :
                 /\ \A j \in 1..Len(series) : series[j][f] <= series[i][f]
                 /\ \A j \in 1..(i-1) : series[j][f] < series[i][f]
    IN series[i].key

\* the order pandas sorts the hour labels in
HourRank == [h \in 0..23 |-> h]

\* the order pandas sorts strings in (code-point order), for the names of
\* the rows
SortedNames ==
    <<"Friday", "Kuala Lumpur", "Monday", "Penang", "Saturday", "Sunday",
      "Thursday", "Tuesday", "Wednesday">>

NameRank == [x \in Range(SortedNames) |-> IndexOf(SortedNames, x)]

\* DataFrame.pivot_table(values="kWh_used", index="day", columns="hour",
\* aggfunc="mean"): a row per day present and a column per hour present,
\* both sorted; a cell with no row of the data is NaN
pivot_table(d) ==
    LET days == unique(d, "day")
        hours == unique(d, "hour")
    IN [index |-> SortBy(days, [x \in days |-> NameRank[x]]),
        columns |-> SortBy(hours, [h \in hours |-> HourRank[h]]),
        cell |-> [c \in days \X hours |->
                     mean(Where(Where(d, "day", c[1]), "hour", c[2]), "kWh_used")]]

\* DataFrame.reindex(labels): exactly the rows labels, in that order; a label
\* the frame has no row for becomes a row of NaN
reindex(pv, labels) ==
    [index |-> labels,
     columns |-> pv.columns,
     cell |-> [c \in Range(labels) \X Range(pv.columns) |->
                  IF c[1] \in Range(pv.index) THEN pv.cell[c] ELSE NaN]]

---------------------------------------------------------------------------
(* Display formatting *)

\* f"{x:.2f}" of an amount of exactly sen hundredths
Format2f(sen) == [nan |-> FALSE, whole |-> sen \div 100, frac |-> sen % 100]

\* f"{x:.2f}" of a mean: "nan", or the fraction rounded to the nearest
\* hundredth (ties to even)
FormatMean2f(m) ==
    IF m.nan THEN [nan |-> TRUE, whole |-> 0, frac |-> 0]
    ELSE LET q == (100 * m.sum) \div m.n
             r == (100 * m.sum) % m.n
             up == 2 * r > m.n \/ (2 * r = m.n /\ q % 2 = 1)
         IN Format2f(IF up THEN q + 1 ELSE q)

---------------------------------------------------------------------------
(* The script *)

\* the options of the sidebar radio, the first being its initial value
Pages ==
    <<"Dashboard", "Prediction", "Alerts & What-If Scenario", "Report Summary",
      "Charging Planner">>

\* the range of the three hour sliders
SliderHours == 0..23

\* the initial values of the widgets
WidgetDefaults ==
    [selected_hour |-> 18, selected_time |-> 17, hour |-> 10, kwh |-> 30]

\* what one execution of a page body gives: it ran to its end with a view,
\* or an exception raised at a line ended the run
Rendered(p, view) == [status |-> "ok", body |-> {p}, line |-> 0, view |-> view]

Raised(p, line) ==
    [status |-> "error", body |-> {p}, line |-> line,
     view |-> [exception |-> "ValueError"]]

\* no script run yet
NotRun == [status |-> "none", body |-> {}, line |-> 0, view |-> [none |-> TRUE]]

\* load_data without the @st.cache_data decorator: every call reads the file
load_data_Uncached == [df |-> csv, cache |-> <<csv>>, reads |-> reads + 1]

\* @st.cache_data load_data(): the first call of the process reads the CSV
\* file and stores the frame; every later call returns the stored frame
load_data ==
    IF cache = <<>>
    THEN [df |-> csv, cache |-> <<csv>>, reads |-> reads + 1]
    ELSE [df |-> cache[1], cache |-> cache, reads |-> reads]

(* 1. Dashboard *)

peak_hour == 20

ordered_days ==
    <<"Monday", "Tuesday", "Wednesday", "Thursday", "Friday", "Saturday", "Sunday">>

\* hourly without the sort_index(): the buckets stay in value_counts order
hourly_Unsorted(d) == value_counts(d, "hour")

\* session count by hour
hourly(d) == sort_index(value_counts(d, "hour"))

\* pivot without the reindex(ordered_days): the rows stay in sorted-name order
pivot_NoReindex(d) == pivot_table(d)

\* day-by-hour mean kWh_used
pivot(d) == reindex(pivot_table(d), ordered_days)

Dashboard(d) ==
    IF idxmax_raises(value_counts(d, "location"))
    THEN Raised("Dashboard", 99)
    ELSE Rendered("Dashboard",
             [peak_hour |-> peak_hour,
              avg_cost |-> FormatMean2f(mean(d, "estimated_cost_RM")),
              top_city |-> idxmax(value_counts(d, "location"), "count"),
              hourly |-> hourly(d),
              charger |-> value_counts(d, "charger_type"),
              pivot |-> pivot(d)])

(* 2. Prediction *)

prediction_peak_start == 19

prediction_peak_end == 22

peak_rate == 60

offpeak_rate == 40

\* the Prediction test with the end of the window excluded
PredictionIsPeak_EndExcluded(h) == prediction_peak_start <= h /\ h < prediction_peak_end

PredictionIsPeak(h) == prediction_peak_start <= h /\ h <= prediction_peak_end

Prediction(w) ==
    LET peak == PredictionIsPeak(w.selected_hour)
        cost == IF peak THEN peak_rate ELSE offpeak_rate
    IN Rendered("Prediction",
           [label |-> IF peak THEN "PEAK" ELSE "OFF-PEAK",
            tariff |-> Format2f(cost),
            suggestion |-> IF peak THEN "Try charging between 12AM-5AM"
                                   ELSE "Excellent time slot"])

(* 3 and 4. Alerts & What-If Scenario *)

alerts_peak_start == 18

alerts_peak_end == 22

peak_cost == 60

offpeak_cost == 35

\* the Peak Hour Detection test with the end of the window included
AlertIsPeak_EndIncluded(t) == alerts_peak_start <= t /\ t <= alerts_peak_end

\* Peak Hour Detection
AlertIsPeak(t) == alerts_peak_start <= t /\ t < alerts_peak_end

\* the simulator's cost cut to whole ringgit before it is displayed
estimateCost_WholeRinggit(hour, kwh) ==
    100 * ((kwh * (IF alerts_peak_start <= hour /\ hour < alerts_peak_end
                   THEN peak_cost ELSE offpeak_cost)) \div 100)

\* What-If Cost Simulator
estimateCost(hour, kwh) ==
    kwh * (IF alerts_peak_start <= hour /\ hour < alerts_peak_end
           THEN peak_cost ELSE offpeak_cost)

\* the 24-hour cost curve: costs[h + 1] is plotted at x = h
costs ==
    [i \in 1..24 |->
        IF alerts_peak_start <= i - 1 /\ i - 1 < alerts_peak_end
        THEN peak_cost ELSE offpeak_cost]

\* ax4.axvspan(peak_start, peak_end): the shaded span xmin <= x <= xmax
axvspan == [xmin |-> alerts_peak_start, xmax |-> alerts_peak_end]

AlertsWhatIf(w) ==
    LET peak == AlertIsPeak(w.selected_time)
        cost == estimateCost(w.hour, w.kwh)
    IN Rendered("Alerts & What-If Scenario",
           [alert |-> IF peak THEN "PEAK" ELSE "OFF-PEAK",
            alert_rate |-> Format2f(IF peak THEN peak_cost ELSE offpeak_cost),
            kwh |-> w.kwh,
            cost |-> cost,
            cost_text |-> Format2f(cost),
            costs |-> costs,
            axvspan |-> axvspan])

(* 5. Report Summary *)

ReportSummary(d) ==
    IF idxmax_raises(groupby_sum(d, "hour", "kWh_used", HourRank))
    THEN Raised("Report Summary", 212)
    ELSE Rendered("Report Summary",
             [avg_consumption |-> FormatMean2f(mean(d, "kWh_used")),
              peak_hours |-> idxmax(groupby_sum(d, "hour", "kWh_used", HourRank), "total"),
              fast_usage |->
                  Format2f(100 * SumOf(Where(d, "charger_type", "Fast Charger"), "kWh_used")),
              normal_usage |->
                  Format2f(100 * SumOf(Where(d, "charger_type", "Normal Charger"), "kWh_used")),
              top_location |->
                  idxmax(groupby_sum(d, "location", "kWh_used", NameRank), "total")])

(* 6. Charging Planner *)

ChargingPlanner(d) ==
    Rendered("Charging Planner",
        [normal_cost |->
             FormatMean2f(mean(Where(d, "charger_type", "Normal Charger"), "estimated_cost_RM")),
         fast_cost |->
             FormatMean2f(mean(Where(d, "charger_type", "Fast Charger"), "estimated_cost_RM"))])

\* the chain with a branch whose literal does not match its radio option
Dispatch_MismatchedLabel(p, w, d) ==
    IF p = "Dashboard" THEN Dashboard(d)
    ELSE IF p = "Prediction" THEN Prediction(w)
    ELSE IF p = "Alerts & What-If" THEN AlertsWhatIf(w)
    ELSE IF p = "Report Summary" THEN ReportSummary(d)
    ELSE IF p = "Charging Planner" THEN ChargingPlanner(d)
    ELSE [status |-> "ok", body |-> {}, line |-> 0, view |-> [none |-> TRUE]]

\* the if/elif chain over the radio value: what the run of the script with
\* radio value p, widget values w and frame d shows
Dispatch(p, w, d) ==
    IF p = "Dashboard" THEN Dashboard(d)
    ELSE IF p = "Prediction" THEN Prediction(w)
    ELSE IF p = "Alerts & What-If Scenario" THEN AlertsWhatIf(w)
    ELSE IF p = "Report Summary" THEN ReportSummary(d)
    ELSE IF p = "Charging Planner" THEN ChargingPlanner(d)
    ELSE [status |-> "ok", body |-> {}, line |-> 0, view |-> [none |-> TRUE]]

\* a run that keeps the Prediction page's PEAK warning of the session's
\* previous run instead of recomputing it
Rerun_StickyPeak(s, p, w) ==
    LET ld == load_data
        sticky == /\ p = "Prediction"
                  /\ out[s].status = "ok"
                  /\ out[s].body = {"Prediction"}
                  /\ out[s].view.label = "PEAK"
    IN /\ cache' = ld.cache
       /\ reads' = ld.reads
       /\ df' = [df EXCEPT ![s] = ld.df]
       /\ page' = [page EXCEPT ![s] = p]
       /\ widgets' = [widgets EXCEPT ![s] = w]
       /\ out' = [out EXCEPT ![s] = IF sticky THEN out[s] ELSE Dispatch(p, w, ld.df)]
       /\ UNCHANGED csv

\* one execution of the script for session s, the radio holding p and the
\* widgets w
Rerun(s, p, w) ==
    LET ld == load_data
    IN /\ cache' = ld.cache
       /\ reads' = ld.reads
       /\ df' = [df EXCEPT ![s] = ld.df]
       /\ page' = [page EXCEPT ![s] = p]
       /\ widgets' = [widgets EXCEPT ![s] = w]
       /\ out' = [out EXCEPT ![s] = Dispatch(p, w, ld.df)]
       /\ UNCHANGED csv

---------------------------------------------------------------------------
(* The state machine *)

\* the process is up, the CSV file is on disk, no browser has connected
Init ==
    /\ csv \in Datasets
    /\ cache = <<>>
    /\ reads = 0
    /\ page = [s \in Sessions |-> Pages[1]]
    /\ widgets = [s \in Sessions |-> WidgetDefaults]
    /\ df = [s \in Sessions |-> <<>>]
    /\ out = [s \in Sessions |-> NotRun]

\* a browser opens the app: the first run of the script for the session
Connect(s) ==
    /\ out[s].status = "none"
    /\ Rerun(s, Pages[1], WidgetDefaults)

\* the user picks another page in the sidebar radio; the widgets of the page
\* left are not rendered by the run and so lose their state
SelectPage(s, p) ==
    /\ out[s].status # "none"
    /\ p # page[s]
    /\ Rerun(s, p, WidgetDefaults)

\* the user moves the Prediction slider
SetSelectedHour(s, h) ==
    /\ out[s].status # "none"
    /\ page[s] = "Prediction"
    /\ h # widgets[s].selected_hour
    /\ Rerun(s, page[s], [widgets[s] EXCEPT !.selected_hour = h])

\* the user moves the Peak Hour Detection slider
SetSelectedTime(s, t) ==
    /\ out[s].status # "none"
    /\ page[s] = "Alerts & What-If Scenario"
    /\ t # widgets[s].selected_time
    /\ Rerun(s, page[s], [widgets[s] EXCEPT !.selected_time = t])

\* the user moves the What-If hour slider
SetHour(s, h) ==
    /\ out[s].status # "none"
    /\ page[s] = "Alerts & What-If Scenario"
    /\ h # widgets[s].hour
    /\ Rerun(s, page[s], [widgets[s] EXCEPT !.hour = h])

\* the user changes the What-If kWh input
SetKwh(s, k) ==
    /\ out[s].status # "none"
    /\ page[s] = "Alerts & What-If Scenario"
    /\ k # widgets[s].kwh
    /\ Rerun(s, page[s], [widgets[s] EXCEPT !.kwh = k])

\* the CSV file is replaced on disk while the process runs
RewriteFile ==
    /\ \E d \in Datasets : d # csv /\ csv' = d
    /\ UNCHANGED <<cache, reads, page, widgets, df, out>>

\* one browser session, every slider position
Next ==
    \/ Connect("A")
    \/ \E p \in Range(Pages) : SelectPage("A", p)
    \/ \E h \in SliderHours : SetSelectedHour("A", h)
    \/ \E t \in SliderHours : SetSelectedTime("A", t)
    \/ \E h \in SliderHours : SetHour("A", h)
    \/ \E k \in KwhInputs : SetKwh("A", k)

Spec == Init /\ [][Next]_vars

\* one browser session, while the file on disk changes
NextFile ==
    \/ RewriteFile
    \/ Connect("A")
    \/ \E p \in Range(Pages) : SelectPage("A", p)
    \/ \E h \in BoundaryHours : SetSelectedHour("A", h)
    \/ \E t \in BoundaryHours : SetSelectedTime("A", t)
    \/ \E h \in BoundaryHours : SetHour("A", h)
    \/ \E k \in BoundaryKwh : SetKwh("A", k)

SpecFile == Init /\ [][NextFile]_vars

\* two browser sessions of the one process
NextTwo ==
    \E s \in Sessions :
        \/ Connect(s)
        \/ \E p \in Range(Pages) : SelectPage(s, p)
        \/ \E h \in BoundaryHours : SetSelectedHour(s, h)
        \/ \E t \in BoundaryHours : SetSelectedTime(s, t)
        \/ \E h \in BoundaryHours : SetHour(s, h)
        \/ \E k \in BoundaryKwh : SetKwh(s, k)

SpecTwo == Init /\ [][NextTwo]_vars

---------------------------------------------------------------------------
(* Properties *)

\* session s has run the script and its page body ran to its end
Shows(s, p) == page[s] = p /\ out[s].status = "ok" /\ out[s].body = {p}

\* C1: on the Prediction page, for every slider hour h in 0..23, the hour is
\* reported PEAK with displayed tariff 0.60 if and only if 19 <= h <= 22,
\* and OFF-PEAK with displayed tariff 0.40 otherwise.
C1_PredictionPeakWindow ==
    \A s \in Sessions :
        Shows(s, "Prediction") =>
            LET h == widgets[s].selected_hour
                v == out[s].view
            IN IF 19 <= h /\ h <= 22
               THEN /\ v.label = "PEAK"
                    /\ v.tariff = [nan |-> FALSE, whole |-> 0, frac |-> 60]
               ELSE /\ v.label = "OFF-PEAK"
                    /\ v.tariff = [nan |-> FALSE, whole |-> 0, frac |-> 40]

\* the Prediction page shows hour 22, the last hour of its window, as PEAK
C1_Witness ==
    /\ Shows("A", "Prediction")
    /\ widgets["A"].selected_hour = 22
    /\ out["A"].view.label = "PEAK"

\* C2: on the Alerts & What-If page, for every slider hour h in 0..23, the
\* peak-hour alert reports PEAK with rate 0.60 if and only if 18 <= h < 22,
\* and OFF-PEAK with rate 0.35 otherwise.
C2_AlertPeakWindow ==
    \A s \in Sessions :
        Shows(s, "Alerts & What-If Scenario") =>
            LET t == widgets[s].selected_time
                v == out[s].view
            IN IF 18 <= t /\ t < 22
               THEN /\ v.alert = "PEAK"
                    /\ v.alert_rate = [nan |-> FALSE, whole |-> 0, frac |-> 60]
               ELSE /\ v.alert = "OFF-PEAK"
                    /\ v.alert_rate = [nan |-> FALSE, whole |-> 0, frac |-> 35]

\* the alert shows hour 22, the end of its window, as OFF-PEAK
C2_Witness ==
    /\ Shows("A", "Alerts & What-If Scenario")
    /\ widgets["A"].selected_time = 22
    /\ out["A"].view.alert = "OFF-PEAK"

\* C3: the What-If estimate is kwh times the Alerts rate of the chosen hour,
\* displayed unrounded, and doubling kwh (1..50) at a fixed hour doubles it;
\* 30 kWh at hour 18 cost 18.00.
C3_CostLinearInKwh ==
    \A s \in Sessions :
        Shows(s, "Alerts & What-If Scenario") =>
            LET h == widgets[s].hour
                k == widgets[s].kwh
                v == out[s].view
                sen == k * (IF 18 <= h /\ h < 22 THEN 60 ELSE 35)
            IN /\ v.cost = sen
               /\ v.cost_text = [nan |-> FALSE, whole |-> sen \div 100, frac |-> sen % 100]
               /\ \A kwh \in 1..50 : estimateCost(h, 2 * kwh) = 2 * estimateCost(h, kwh)
               /\ (h = 18 /\ k = 30) =>
                      v.cost_text = [nan |-> FALSE, whole |-> 18, frac |-> 0]

\* the simulator shows 9.00 for 15 kWh at hour 18, half of the 18.00 of 30 kWh
C3_Witness ==
    /\ Shows("A", "Alerts & What-If Scenario")
    /\ widgets["A"].hour = 18
    /\ widgets["A"].kwh = 15
    /\ out["A"].view.cost_text = [nan |-> FALSE, whole |-> 9, frac |-> 0]

\* C4: every run of the script executes exactly one page body, the one of
\* the current radio selection; a new selection renders the page selected,
\* and the first run renders Dashboard.
C4_RoutesToSelectedPage ==
    /\ [](\A s \in Sessions :
              out[s].status # "none" =>
                  /\ page[s] \in Range(Pages)
                  /\ out[s].body = {page[s]})
    /\ [][\A s \in Sessions :
              /\ (out[s].status = "none" /\ out'[s].status # "none") =>
                     out'[s].body = {"Dashboard"}
              /\ \A p \in Range(Pages) :
                     (page[s] # p /\ page'[s] = p) => out'[s].body = {p}]_vars

\* the Alerts & What-If page has been selected and its body has run
C4_Witness ==
    /\ page["A"] = "Alerts & What-If Scenario"
    /\ out["A"].body = {"Alerts & What-If Scenario"}
    /\ out["A"].status = "ok"

\* C5: once the Dataset is loaded, no run reads the CSV source again, every
\* run sees the frame of the first load, and no run changes that frame.
C5_LoadedOnce ==
    /\ [](/\ reads <= 1
          /\ cache # <<>> =>
                 /\ reads = 1
                 /\ \A s \in Sessions : out[s].status # "none" => df[s] = cache[1])
    /\ [][cache # <<>> => (cache' = cache /\ reads' = reads)]_vars

\* a page is rendered from the loaded frame after the file on disk changed
C5_Witness ==
    /\ Shows("A", "Charging Planner")
    /\ cache # <<>>
    /\ csv # cache[1]
    /\ df["A"] = cache[1]
    /\ reads = 1

\* C6: what a page shows depends only on the Dataset and the current widget
\* values: two sessions of the process on the same page with the same widget
\* values show the same, whatever each did before.
C6_ViewDependsOnlyOnInputs ==
    \A s, t \in Sessions :
        (/\ out[s].status # "none"
         /\ out[t].status # "none"
         /\ page[s] = page[t]
         /\ widgets[s] = widgets[t]) => out[s] = out[t]

\* both sessions, each by its own moves, have the Prediction slider at 22
\* and show the same PEAK view
C6_Witness ==
    /\ Shows("A", "Prediction")
    /\ Shows("B", "Prediction")
    /\ widgets["A"] = widgets["B"]
    /\ widgets["A"].selected_hour = 22
    /\ out["A"].view.label = "PEAK"
    /\ out["A"] = out["B"]

\* C7: with a Dataset of zero rows, no page enters an error state.
C7_EmptyDatasetDoesNotRaise ==
    \A s \in Sessions :
        (out[s].status # "none" /\ df[s] = <<>>) => out[s].status # "error"

\* C8: the Dashboard's session count by hour is ordered by hour ascending,
\* each bucket counts the rows of its hour, and the counts sum to N.
C8_HourlyCounts ==
    \A s \in Sessions :
        Shows(s, "Dashboard") =>
            LET h == out[s].view.hourly
                d == df[s]
            IN /\ \A i \in 1..(Len(h) - 1) : h[i].key < h[i + 1].key
               /\ \A i \in 1..Len(h) :
                      h[i].count = Cardinality({j \in 1..Len(d) : d[j].hour = h[i].key})
               /\ { h[i].key : i \in 1..Len(h) } = { d[j].hour : j \in 1..Len(d) }
               /\ SumOf(h, "count") = Len(d)

\* the Dashboard counts a file whose rows come with the later hour first
C8_Witness ==
    /\ Shows("A", "Dashboard")
    /\ Len(df["A"]) = 2
    /\ df["A"][1].hour > df["A"][2].hour
    /\ Len(out["A"].view.hourly) = 2

C10_ShadedSpanIsPeakPriced ==
    \A s \in Sessions :
        Shows(s, "Alerts & What-If Scenario") =>
            LET v == out[s].view
            IN \A h \in 0..23 :
                   /\ (v.axvspan.xmin <= h /\ h <= v.axvspan.xmax) <=> v.costs[h + 1] = 60
                   /\ widgets[s].selected_time = h =>
                          v.alert_rate = Format2f(v.costs[h + 1])
                   /\ widgets[s].hour = h => v.cost = widgets[s].kwh * v.costs[h + 1]

====
